---- MODULE Spec2Model ----
(***************************************************************************)
(* run_example of the ANF dual-protocol sample (src/src/example.py): a     *)
(* sequential script that creates an account, a capacity pool and a        *)
(* dual-protocol volume through the management API and, when                *)
(* CLEANUP_RESOURCES is set, deletes them again innermost first.           *)
(*                                                                         *)
(* The script blocks on every API call, so the model splits run_example at *)
(* its blocking points: a step that issues a request, a step of the        *)
(* management plane that completes the long-running operation (success or  *)
(* CloudError), and a step of the script that consumes the outcome.        *)
(* The management plane is modelled with the weakest assumptions: an       *)
(* operation that succeeds has its effect, one that fails has none, and a  *)
(* deleted resource may stay visible for a while after its delete          *)
(* operation completed (the reason for the "ARM Workaround" of line 280).  *)
(* It enforces no parent/child rule of its own: the ordering is the        *)
(* script's.                                                               *)
(***************************************************************************)
EXTENDS Integers, Sequences, FiniteSets, TLC

VARIABLES
    pc,                  \* position of run_example
    cloud,               \* resource ids a GET on the management API finds
    deleting,            \* ids whose delete completed but are still visible
    calls,               \* the requests issued so far, each with its outcome
    output,              \* console_output lines, in order
    anf_account,         \* local anf_account (line 197)
    capacity_pool,       \* local capacity_pool (line 214)
    volume,              \* local volume (line 233)
    polls,               \* GETs by the current wait_for_no_anf_resource
    ANF_ACCOUNT_NAME,    \* configuration, line 23
    CAPACITY_POOL_NAME,  \* configuration, line 24
    CLEANUP_RESOURCES    \* configuration, line 41

vars == <<pc, cloud, deleting, calls, output, anf_account, capacity_pool,
          volume, polls, ANF_ACCOUNT_NAME, CAPACITY_POOL_NAME,
          CLEANUP_RESOURCES>>

config == <<ANF_ACCOUNT_NAME, CAPACITY_POOL_NAME, CLEANUP_RESOURCES>>
locals == <<anf_account, capacity_pool, volume>>

----------------------------------------------------------------------------
(* Bounds and configuration                                                *)

\* most GETs one wait_for_no_anf_resource is followed through
MaxPolls == 2

\* values the user may have put in place of "<Account Name>", "<Capacity Pool>"
AccountNames == {"anfaccount1", "anfaccount2"}
PoolNames == {"pool1", "pool2"}

RESOURCE_GROUP_NAME == "<Resource Group Name>"
VOLUME_NAME == "<Volume Name>"
subscription_id == "<subscription>"

\* Python's None, for the three resource locals
None == [id |-> <<>>, name |-> "", protocol_types |-> <<>>]

----------------------------------------------------------------------------
(* Resource ids.  An id is the "/"-separated URI                           *)
(* /subscriptions/S/resourceGroups/G/providers/Microsoft.NetApp/           *)
(*  netAppAccounts/A[/capacityPools/P[/volumes/V]], held as its segments.  *)

AccountId(account) ==
    <<"subscriptions", subscription_id, "resourceGroups", RESOURCE_GROUP_NAME,
      "providers", "Microsoft.NetApp", "netAppAccounts", account>>

PoolId(account, pool) == AccountId(account) \o <<"capacityPools", pool>>

VolumeId(account, pool, vol) == PoolId(account, pool) \o <<"volumes", vol>>

\* the segment that follows the segment `resource_name`; "" when there is none
get_resource_value(resource_uri, resource_name) ==
    LET at == {i \in 1..(Len(resource_uri) - 1) : resource_uri[i] = resource_name}
    IN  IF at = {} THEN ""
        ELSE resource_uri[(CHOOSE i \in at : \A j \in at : i <= j) + 1]

get_anf_capacity_pool(resource_uri) == get_resource_value(resource_uri, "capacityPools")

get_anf_volume(resource_uri) == get_resource_value(resource_uri, "volumes")

ParentId(id) == SubSeq(id, 1, Len(id) - 2)

----------------------------------------------------------------------------
(* Requests and the management plane                                       *)

Request(op, kind, account, pool, vol, protocols) ==
    [op |-> op, kind |-> kind, resource_group |-> RESOURCE_GROUP_NAME,
     account |-> account, pool |-> pool, volume |-> vol,
     protocol_types |-> protocols, status |-> "pending"]

\* the id the management API gives the resource a request addresses
TargetId(call) ==
    IF call.kind = "account" THEN AccountId(call.account)
    ELSE IF call.kind = "pool" THEN PoolId(call.account, call.pool)
    ELSE VolumeId(call.account, call.pool, call.volume)

\* the resource object a completed create_or_update returns: children are
\* named "account/pool" and "account/pool/volume"
ResultOf(call) ==
    [id |-> TargetId(call),
     name |-> IF call.kind = "account" THEN call.account
              ELSE IF call.kind = "pool" THEN call.account \o "/" \o call.pool
              ELSE call.account \o "/" \o call.pool \o "/" \o call.volume,
     protocol_types |-> call.protocol_types]

Last == calls[Len(calls)]

Pending == Len(calls) > 0 /\ Last.status = "pending"
Succeeded == Len(calls) > 0 /\ Last.status = "ok"
Failed == Len(calls) > 0 /\ Last.status = "error"

SetStatus(s) == [calls EXCEPT ![Len(calls)].status = s]

Say(lines) == output' = output \o lines

----------------------------------------------------------------------------
Init ==
    /\ pc = "start"
    /\ cloud = {}
    /\ deleting = {}
    /\ calls = <<>>
    /\ output = <<>>
    /\ anf_account = None
    /\ capacity_pool = None
    /\ volume = None
    /\ polls = 0
    /\ ANF_ACCOUNT_NAME \in AccountNames
    /\ CAPACITY_POOL_NAME \in PoolNames
    /\ CLEANUP_RESOURCES \in BOOLEAN

(* The management plane *)

\* a pending create completes: the resource exists
LroCreateSucceeds ==
    /\ Pending /\ Last.op = "create"
    /\ calls' = SetStatus("ok")
    /\ cloud' = cloud \cup {TargetId(Last)}
    /\ UNCHANGED <<pc, deleting, output, locals, polls, config>>

\* a pending delete completes: the resource is gone, now or a little later
LroDeleteSucceeds ==
    /\ Pending /\ Last.op = "delete"
    /\ calls' = SetStatus("ok")
    /\ \/ /\ cloud' = cloud \ {TargetId(Last)}
          /\ UNCHANGED deleting
       \/ /\ TargetId(Last) \in cloud
          /\ deleting' = deleting \cup {TargetId(Last)}
          /\ UNCHANGED cloud
    /\ UNCHANGED <<pc, output, locals, polls, config>>

\* a pending operation fails with a CloudError and has no effect
LroFails ==
    /\ Pending
    /\ calls' = SetStatus("error")
    /\ UNCHANGED <<pc, cloud, deleting, output, locals, polls, config>>

\* a deleted resource that was still visible disappears
Disappear ==
    /\ \E id \in deleting :
          /\ cloud' = cloud \ {id}
          /\ deleting' = deleting \ {id}
    /\ UNCHANGED <<pc, calls, output, locals, polls, config>>

(* run_example *)

\* lines 173-195: header, credentials, client, password, certificate
Setup ==
    /\ pc = "start"
    /\ Say(<<"Instantiating a new Azure NetApp Files management client...",
             "Api Version: {}",
             "Encoding certificate contents as base64 string...",
             "Creating ANF Resources...",
             "Creating Account...">>)
    /\ pc' = "create_account"
    /\ UNCHANGED <<cloud, deleting, calls, locals, polls, config>>

\* lines 199-204, 64-77: accounts.create_or_update
CreateAccountCall ==
    /\ pc = "create_account"
    /\ calls' = Append(calls, Request("create", "account", ANF_ACCOUNT_NAME, "", "", <<>>))
    /\ pc' = "create_account_result"
    /\ UNCHANGED <<cloud, deleting, output, locals, polls, config>>

\* CreateAccountResult with the poller's .result() left out
CreateAccountResult_NoResult ==
    /\ pc = "create_account_result"
    /\ anf_account' = ResultOf(Last)
    /\ Say(<<"Account successfully created", "Creating Capacity Pool...">>)
    /\ pc' = "create_pool"
    /\ UNCHANGED <<cloud, deleting, calls, capacity_pool, volume, polls, config>>

\* lines 75-77 .result(), 206, 211-214
CreateAccountResult ==
    /\ pc = "create_account_result" /\ Succeeded
    /\ anf_account' = ResultOf(Last)
    /\ Say(<<"Account successfully created", "Creating Capacity Pool...">>)
    /\ pc' = "create_pool"
    /\ UNCHANGED <<cloud, deleting, calls, capacity_pool, volume, polls, config>>

\* lines 207-209
CreateAccountError ==
    /\ pc = "create_account_result" /\ Failed
    /\ Say(<<"An error occurred while creating Account">>)
    /\ pc' = "raised"
    /\ UNCHANGED <<cloud, deleting, calls, locals, polls, config>>

\* lines 216-221, 108-115: pools.create_or_update
CreateCapacityPoolCall ==
    /\ pc = "create_pool"
    /\ calls' = Append(calls, Request("create", "pool", anf_account.name,
                                      CAPACITY_POOL_NAME, "", <<>>))
    /\ pc' = "create_pool_result"
    /\ UNCHANGED <<cloud, deleting, output, locals, polls, config>>

\* lines 112-115 .result(), 223, 228-233
CreateCapacityPoolResult ==
    /\ pc = "create_pool_result" /\ Succeeded
    /\ capacity_pool' = ResultOf(Last)
    /\ Say(<<"Capacity Pool successfully created",
             "Creating Volume with dual-protocol...">>)
    /\ pc' = "create_volume"
    /\ UNCHANGED <<cloud, deleting, calls, anf_account, volume, polls, config>>

\* CreateCapacityPoolError with the raise left out
CreateCapacityPoolError_NoRaise ==
    /\ pc = "create_pool_result" /\ Failed
    /\ Say(<<"An error occurred while creating Capacity Pool">>)
    /\ pc' = "create_volume"
    /\ UNCHANGED <<cloud, deleting, calls, locals, polls, config>>

\* lines 224-226
CreateCapacityPoolError ==
    /\ pc = "create_pool_result" /\ Failed
    /\ Say(<<"An error occurred while creating Capacity Pool">>)
    /\ pc' = "raised"
    /\ UNCHANGED <<cloud, deleting, calls, locals, polls, config>>

\* line 150
protocol_types == <<"CIFS", "NFSv3">>

\* CreateVolumeCall passing capacity_pool.name ("account/pool") as the pool name
CreateVolumeCall_PoolDotName ==
    /\ pc = "create_volume"
    /\ LET pool_name == capacity_pool.name
       IN  calls' = Append(calls, Request("create", "volume", anf_account.name,
                                          pool_name, VOLUME_NAME, protocol_types))
    /\ pc' = "create_volume_result"
    /\ UNCHANGED <<cloud, deleting, output, locals, polls, config>>

\* lines 235-244, 150-167: volumes.create_or_update
CreateVolumeCall ==
    /\ pc = "create_volume"
    /\ LET pool_name == get_anf_capacity_pool(capacity_pool.id)
       IN  calls' = Append(calls, Request("create", "volume", anf_account.name,
                                          pool_name, VOLUME_NAME, protocol_types))
    /\ pc' = "create_volume_result"
    /\ UNCHANGED <<cloud, deleting, output, locals, polls, config>>

\* lines 163-167 .result(), 246
CreateVolumeResult ==
    /\ pc = "create_volume_result" /\ Succeeded
    /\ volume' = ResultOf(Last)
    /\ Say(<<"Volume successfully created">>)
    /\ pc' = "print_volume"
    /\ UNCHANGED <<cloud, deleting, calls, anf_account, capacity_pool, polls, config>>

\* CreateVolumeError that tears down what was created before it re-raises
CreateVolumeError_Rollback ==
    /\ pc = "create_volume_result" /\ Failed
    /\ Say(<<"An error occurred while creating Volume">>)
    /\ pc' = IF CLEANUP_RESOURCES THEN "delete_pool" ELSE "raised"
    /\ UNCHANGED <<cloud, deleting, calls, locals, polls, config>>

\* lines 247-249
CreateVolumeError ==
    /\ pc = "create_volume_result" /\ Failed
    /\ Say(<<"An error occurred while creating Volume">>)
    /\ pc' = "raised"
    /\ UNCHANGED <<cloud, deleting, calls, locals, polls, config>>

\* PrintVolume without the test of CLEANUP_RESOURCES
PrintVolume_AlwaysCleanup ==
    /\ pc = "print_volume"
    /\ Say(<<"Current Volume protocol types: {}", "SMB Server FQDN: {}",
             "NFS IP Address: {}", "Cleaning up resources",
             "Deleting Volumes...">>)
    /\ pc' = "delete_volume"
    /\ UNCHANGED <<cloud, deleting, calls, locals, polls, config>>

\* lines 251-253 and the test of line 260 with lines 263-266
PrintVolume ==
    /\ pc = "print_volume"
    /\ IF CLEANUP_RESOURCES
       THEN /\ Say(<<"Current Volume protocol types: {}", "SMB Server FQDN: {}",
                     "NFS IP Address: {}", "Cleaning up resources",
                     "Deleting Volumes...">>)
            /\ pc' = "delete_volume"
       ELSE /\ Say(<<"Current Volume protocol types: {}", "SMB Server FQDN: {}",
                     "NFS IP Address: {}">>)
            /\ pc' = "complete"
    /\ UNCHANGED <<cloud, deleting, calls, locals, polls, config>>

\* lines 269-278: volumes.delete
DeleteVolumeCall ==
    /\ pc = "delete_volume"
    /\ LET volume_id == volume.id
           pool_name == get_resource_value(volume_id, "capacityPools")
           volume_name == get_anf_volume(volume_id)
       IN  calls' = Append(calls, Request("delete", "volume", anf_account.name,
                                          pool_name, volume_name, <<>>))
    /\ Say(<<"Deleting {volume}">>)
    /\ pc' = "delete_volume_result"
    /\ UNCHANGED <<cloud, deleting, locals, polls, config>>

\* DeleteVolumeResult without the wait of line 281
DeleteVolumeResult_NoWait ==
    /\ pc = "delete_volume_result" /\ Succeeded
    /\ Say(<<"Successfully deleted Volume", "Deleting Capacity Pools...">>)
    /\ pc' = "delete_pool"
    /\ UNCHANGED <<cloud, deleting, calls, locals, polls, config>>

\* line 278 .wait() returns, line 281 is entered
DeleteVolumeResult ==
    /\ pc = "delete_volume_result" /\ Succeeded
    /\ pc' = "wait_no_volume"
    /\ polls' = 0
    /\ UNCHANGED <<cloud, deleting, calls, output, locals, config>>

\* wait_for_no_anf_resource returns once a GET of the resource finds nothing
wait_for_no_anf_resource(resource_id) == resource_id \notin cloud

\* a GET of wait_for_no_anf_resource that still finds the resource
WaitPoll ==
    /\ \/ pc = "wait_no_volume" /\ volume.id \in cloud
       \/ pc = "wait_no_pool" /\ capacity_pool.id \in cloud
    /\ polls < MaxPolls
    /\ polls' = polls + 1
    /\ UNCHANGED <<pc, cloud, deleting, calls, output, locals, config>>

\* DeleteVolumeDone waiting for the pool, not the volume, to disappear
DeleteVolumeDone_WaitsForPool ==
    /\ pc = "wait_no_volume"
    /\ wait_for_no_anf_resource(capacity_pool.id)
    /\ Say(<<"Successfully deleted Volume", "Deleting Capacity Pools...">>)
    /\ pc' = "delete_pool"
    /\ UNCHANGED <<cloud, deleting, calls, locals, polls, config>>

\* line 281 returns, lines 282, 287-288
DeleteVolumeDone ==
    /\ pc = "wait_no_volume"
    /\ wait_for_no_anf_resource(volume.id)
    /\ Say(<<"Successfully deleted Volume", "Deleting Capacity Pools...">>)
    /\ pc' = "delete_pool"
    /\ UNCHANGED <<cloud, deleting, calls, locals, polls, config>>

\* DeleteVolumeError with the raise left out
DeleteVolumeError_NoRaise ==
    /\ pc = "delete_volume_result" /\ Failed
    /\ Say(<<"An error occurred while deleting volumes">>)
    /\ pc' = "delete_pool"
    /\ UNCHANGED <<cloud, deleting, calls, locals, polls, config>>

\* lines 283-285
DeleteVolumeError ==
    /\ pc = "delete_volume_result" /\ Failed
    /\ Say(<<"An error occurred while deleting volumes">>)
    /\ pc' = "raised"
    /\ UNCHANGED <<cloud, deleting, calls, locals, polls, config>>

\* lines 291-298: pools.delete
DeletePoolCall ==
    /\ pc = "delete_pool"
    /\ LET pool_id == capacity_pool.id
           pool_name == get_anf_capacity_pool(pool_id)
       IN  calls' = Append(calls, Request("delete", "pool", anf_account.name,
                                          pool_name, "", <<>>))
    /\ Say(<<"Deleting {pool}">>)
    /\ pc' = "delete_pool_result"
    /\ UNCHANGED <<cloud, deleting, locals, polls, config>>

\* line 298 .wait() returns, line 300 is entered
DeletePoolResult ==
    /\ pc = "delete_pool_result" /\ Succeeded
    /\ pc' = "wait_no_pool"
    /\ polls' = 0
    /\ UNCHANGED <<cloud, deleting, calls, output, locals, config>>

\* line 300 returns, lines 301, 306-307
DeletePoolDone ==
    /\ pc = "wait_no_pool"
    /\ wait_for_no_anf_resource(capacity_pool.id)
    /\ Say(<<"Successfully deleted Capacity Pool", "Deleting Account...">>)
    /\ pc' = "delete_account"
    /\ UNCHANGED <<cloud, deleting, calls, locals, polls, config>>

\* lines 302-304
DeletePoolError ==
    /\ pc = "delete_pool_result" /\ Failed
    /\ Say(<<"An error occurred while deleting capacity pools">>)
    /\ pc' = "raised"
    /\ UNCHANGED <<cloud, deleting, calls, locals, polls, config>>

\* lines 310-313: accounts.delete
DeleteAccountCall ==
    /\ pc = "delete_account"
    /\ calls' = Append(calls, Request("delete", "account", anf_account.name, "", "", <<>>))
    /\ Say(<<"Deleting {account}">>)
    /\ pc' = "delete_account_result"
    /\ UNCHANGED <<cloud, deleting, locals, polls, config>>

\* line 313 .wait() returns, line 315: no wait_for_no_anf_resource here
DeleteAccountResult ==
    /\ pc = "delete_account_result" /\ Succeeded
    /\ Say(<<"Successfully deleted Account">>)
    /\ pc' = "complete"
    /\ UNCHANGED <<cloud, deleting, calls, locals, polls, config>>

\* DeleteAccountError with the raise left out
DeleteAccountError_NoRaise ==
    /\ pc = "delete_account_result" /\ Failed
    /\ Say(<<"An error occurred while deleting accounts">>)
    /\ pc' = "complete"
    /\ UNCHANGED <<cloud, deleting, calls, locals, polls, config>>

\* lines 316-318
DeleteAccountError ==
    /\ pc = "delete_account_result" /\ Failed
    /\ Say(<<"An error occurred while deleting accounts">>)
    /\ pc' = "raised"
    /\ UNCHANGED <<cloud, deleting, calls, locals, polls, config>>

\* line 320
Complete ==
    /\ pc = "complete"
    /\ Say(<<"ANF Dual-Protocol sample has completed successfully">>)
    /\ pc' = "done"
    /\ UNCHANGED <<cloud, deleting, calls, locals, polls, config>>

Next ==
    \/ LroCreateSucceeds
    \/ LroDeleteSucceeds
    \/ LroFails
    \/ Disappear
    \/ Setup
    \/ CreateAccountCall
    \/ CreateAccountResult
    \/ CreateAccountError
    \/ CreateCapacityPoolCall
    \/ CreateCapacityPoolResult
    \/ CreateCapacityPoolError
    \/ CreateVolumeCall
    \/ CreateVolumeResult
    \/ CreateVolumeError
    \/ PrintVolume
    \/ DeleteVolumeCall
    \/ DeleteVolumeResult
    \/ WaitPoll
    \/ DeleteVolumeDone
    \/ DeleteVolumeError
    \/ DeletePoolCall
    \/ DeletePoolResult
    \/ DeletePoolDone
    \/ DeletePoolError
    \/ DeleteAccountCall
    \/ DeleteAccountResult
    \/ DeleteAccountError
    \/ Complete

Spec == Init /\ [][Next]_vars

\* the claims' assumption on the management plane: an operation in flight
\* completes or fails, and a deleted resource disappears; the script itself
\* runs whenever it is not blocked
Script ==
    \/ Setup \/ CreateAccountCall \/ CreateAccountResult \/ CreateAccountError
    \/ CreateCapacityPoolCall \/ CreateCapacityPoolResult \/ CreateCapacityPoolError
    \/ CreateVolumeCall \/ CreateVolumeResult \/ CreateVolumeError
    \/ PrintVolume
    \/ DeleteVolumeCall \/ DeleteVolumeResult \/ DeleteVolumeDone \/ DeleteVolumeError
    \/ DeletePoolCall \/ DeletePoolResult \/ DeletePoolDone \/ DeletePoolError
    \/ DeleteAccountCall \/ DeleteAccountResult \/ DeleteAccountError
    \/ Complete

LroCompletes == LroCreateSucceeds \/ LroDeleteSucceeds \/ LroFails

FairSpec ==
    /\ Init /\ [][Next]_vars
    /\ WF_vars(Script)
    /\ WF_vars(LroCompletes)
    /\ WF_vars(Disappear)

----------------------------------------------------------------------------
(* Properties                                                              *)

Calls(op, kind) == {i \in 1..Len(calls) : calls[i].op = op /\ calls[i].kind = kind}

Ok(i) == calls[i].status = "ok"

Reported(line) == \E i \in 1..Len(output) : output[i] = line

FinalMessage == "ANF Dual-Protocol sample has completed successfully"

\* the message each stage's except clause prints
ErrorMessage(call) ==
    IF call.op = "create"
    THEN IF call.kind = "account" THEN "An error occurred while creating Account"
         ELSE IF call.kind = "pool" THEN "An error occurred while creating Capacity Pool"
         ELSE "An error occurred while creating Volume"
    ELSE IF call.kind = "volume" THEN "An error occurred while deleting volumes"
         ELSE IF call.kind = "pool" THEN "An error occurred while deleting capacity pools"
         ELSE "An error occurred while deleting accounts"

\* C1: the creates are issued in the order account, pool, volume, and the
\* pool (volume) create is issued only once the account (pool) create's
\* long-running operation has completed successfully.
C1_CreateOrder ==
    /\ \A i \in Calls("create", "account") : i = 1
    /\ \A i \in Calls("create", "pool") :
          i = 2 /\ calls[1].op = "create" /\ calls[1].kind = "account" /\ Ok(1)
    /\ \A i \in Calls("create", "volume") :
          i = 3 /\ calls[2].op = "create" /\ calls[2].kind = "pool" /\ Ok(2) /\ Ok(1)

C1_Witness == Calls("create", "volume") # {} /\ Pending

\* C2: with CLEANUP_RESOURCES the deletes are issued volume, pool, account,
\* after all three creates succeeded; the pool (account) delete is issued
\* only once the volume (pool) delete has completed.
C2_DeleteOrder ==
    /\ \A i \in 1..Len(calls) : calls[i].op = "delete" =>
          /\ CLEANUP_RESOURCES
          /\ i > 3
          /\ \A j \in 1..3 : calls[j].op = "create" /\ Ok(j)
    /\ \A i \in Calls("delete", "volume") : i = 4
    /\ \A i \in Calls("delete", "pool") :
          i = 5 /\ calls[4].op = "delete" /\ calls[4].kind = "volume" /\ Ok(4)
    /\ \A i \in Calls("delete", "account") :
          i = 6 /\ calls[5].op = "delete" /\ calls[5].kind = "pool" /\ Ok(5)

C2_Witness == Calls("delete", "account") # {} /\ Pending

\* C3: for each of volume, pool and account, the deletion is reported as
\* successful, and the script moves on, only once the resource is no longer
\* present.
C3_ReportedOnlyWhenGone ==
    /\ Reported("Successfully deleted Volume") => volume.id \notin cloud
    /\ Reported("Successfully deleted Capacity Pool") => capacity_pool.id \notin cloud
    /\ Reported("Successfully deleted Account") => anf_account.id \notin cloud

\* C4: a CloudError in any of the six operations is logged with the message
\* of its stage and re-raised; no request is issued after a failed one.
C4_FailStop ==
    /\ \A i \in 1..Len(calls) : calls[i].status = "error" => i = Len(calls)
    /\ pc = "raised" =>
          /\ Failed
          /\ output[Len(output)] = ErrorMessage(Last)
    /\ Failed => pc \in {"raised", "create_account_result", "create_pool_result",
                         "create_volume_result", "delete_volume_result",
                         "delete_pool_result", "delete_account_result"}

C4_Witness == pc = "raised" /\ Last.op = "delete" /\ Last.kind = "pool"

\* C5: without CLEANUP_RESOURCES no delete is ever issued, and after a fully
\* successful run the account, the pool and the volume all exist.
C5_NoCleanup ==
    ~CLEANUP_RESOURCES =>
        /\ \A i \in 1..Len(calls) : calls[i].op # "delete"
        /\ pc = "done" => {anf_account.id, capacity_pool.id, volume.id} \subseteq cloud
        /\ pc = "done" => volume.id = VolumeId(ANF_ACCOUNT_NAME, CAPACITY_POOL_NAME, VOLUME_NAME)

C5_Witness == ~CLEANUP_RESOURCES /\ pc = "done"

C7_FinalMessage ==
    Reported(FinalMessage) =>
        /\ \A i \in 1..Len(calls) : Ok(i)
        /\ \A k \in {"account", "pool", "volume"} : Calls("create", k) # {}
        /\ CLEANUP_RESOURCES =>
              \A k \in {"account", "pool", "volume"} : Calls("delete", k) # {}

C7_Witness == Reported(FinalMessage) /\ CLEANUP_RESOURCES

\* C8: if every operation in flight completes or fails and every deleted
\* resource disappears, the run ends: at the final message, or at the first
\* failed operation, re-raised.
C8_Terminates ==
    <>(\/ pc = "done" /\ Reported(FinalMessage)
       \/ pc = "raised" /\ Failed)

C8_Witness == pc = "done" /\ CLEANUP_RESOURCES /\ polls = MaxPolls

\* C9: when the pool create or the volume create fails, what the run already
\* created stays and no delete is issued, CLEANUP_RESOURCES or not.
C9_NoRollback ==
    \A f \in 1..Len(calls) :
        (calls[f].op = "create" /\ calls[f].status = "error") =>
            /\ \A i \in 1..Len(calls) : calls[i].op # "delete"
            /\ \A i \in 1..(f - 1) : TargetId(calls[i]) \in cloud

C9_Witness ==
    /\ pc = "raised" /\ CLEANUP_RESOURCES
    /\ Last.op = "create" /\ Last.kind = "volume"

\* C10: in every reachable state a volume exists only if its pool exists and
\* a pool only if its account exists.
C10_Hierarchy == \A id \in cloud : Len(id) > 8 => ParentId(id) \in cloud

C10_Witness ==
    /\ capacity_pool.id \in cloud
    /\ volume # None /\ volume.id \notin cloud
====
